---- MODULE Spec2Model ----
(***************************************************************************)
(* OpenAPI -> MCP tool server (src/src/index.ts).                          *)
(*                                                                         *)
(* parseOpenAPISpec compiles every (path, method, operation) of an OpenAPI *)
(* document into a tool descriptor stored in the Map `tools` under a       *)
(* derived tool identifier; the CallToolRequestSchema handler resolves a   *)
(* request to a descriptor, rebuilds method and path from the identifier,  *)
(* builds the URL and the axios request configuration, and issues the      *)
(* call.                                                                   *)
(*                                                                         *)
(* Strings are sequences of one-character strings, so that the regular     *)
(* expression replacements, split/join and URL resolution of the source    *)
(* are computed character by character.                                    *)
(***************************************************************************)
EXTENDS Naturals, Sequences, FiniteSets, Bags, TLC

VARIABLES
    pc,          \* where main()/start() stands: "constructed", "compiling", "parsed", "exited"
    connected,   \* whether server.connect(transport) was called: requests reach the handlers
    pos,         \* number of (path, method) entries the compile loops have consumed
    registered,  \* the operations for which this.tools.set was called, in call order
    tools,       \* this.tools: the Map, as the sequence of its entries in iteration order
    inflight,    \* invocations suspended in `await axios(config)`: the bag of
                 \* [calls: how often the invocation has called axios]
    last,        \* what the latest handler step returned, threw or sent
    arg,         \* input of the function under study (pure-function specifications)
    res          \* its intermediate and final results

vars == <<pc, connected, pos, registered, tools, inflight, last, arg, res>>

---------------------------------------------------------------------------
(* Characters and strings *)

LowerAZ == <<"a", "b", "c", "d", "e", "f", "g", "h", "i", "j", "k", "l", "m",
             "n", "o", "p", "q", "r", "s", "t", "u", "v", "w", "x", "y", "z">>

UpperAZ == <<"A", "B", "C", "D", "E", "F", "G", "H", "I", "J", "K", "L", "M",
             "N", "O", "P", "Q", "R", "S", "T", "U", "V", "W", "X", "Y", "Z">>

Digits == {"0", "1", "2", "3", "4", "5", "6", "7", "8", "9"}

Range(s) == {s[i] : i \in DOMAIN s}

Letters == Range(LowerAZ) \cup Range(UpperAZ)

\* the character class a-zA-Z0-9 of the three regular expressions
IsAlnum(c) == c \in Letters \/ c \in Digits

\* String.prototype.toUpperCase / toLowerCase on one ASCII character
UpperChar(c) ==
    IF c \in Range(LowerAZ)
    THEN UpperAZ[CHOOSE i \in DOMAIN LowerAZ : LowerAZ[i] = c]
    ELSE c

LowerChar(c) ==
    IF c \in Range(UpperAZ)
    THEN LowerAZ[CHOOSE i \in DOMAIN UpperAZ : UpperAZ[i] = c]
    ELSE c

ToUpperCase(s) == [i \in DOMAIN s |-> UpperChar(s[i])]

ToLowerCase(s) == [i \in DOMAIN s |-> LowerChar(s[i])]

\* s.startsWith(p)
StartsWith(s, p) == Len(s) >= Len(p) /\ SubSeq(s, 1, Len(p)) = p

\* s.endsWith("/")
EndsWithSlash(s) == Len(s) > 0 /\ s[Len(s)] = "/"

\* s.split(sep), sep one character: the segments between separators.  The
\* string is cut at a separator near its middle and the segments of the two
\* parts are put together, which keeps the recursion shallow on long strings.
RECURSIVE Split(_, _)
Split(s, sep) ==
    IF \A i \in DOMAIN s : s[i] # sep
    THEN <<s>>
    ELSE LET mid == (Len(s) + 1) \div 2
             k == IF \E i \in mid..Len(s) : s[i] = sep
                  THEN CHOOSE i \in mid..Len(s) :
                           s[i] = sep /\ \A j \in mid..(i - 1) : s[j] # sep
                  ELSE CHOOSE i \in 1..(mid - 1) :
                           s[i] = sep /\ \A j \in (i + 1)..(mid - 1) : s[j] # sep
         IN Split(SubSeq(s, 1, k - 1), sep) \o Split(SubSeq(s, k + 1, Len(s)), sep)

\* parts.join(sep), by halves
RECURSIVE Join(_, _)
Join(parts, sep) ==
    IF parts = <<>> THEN <<>>
    ELSE IF Len(parts) = 1 THEN parts[1]
    ELSE LET h == Len(parts) \div 2
         IN Join(SubSeq(parts, 1, h), sep) \o <<sep>>
                \o Join(SubSeq(parts, h + 1, Len(parts)), sep)

\* id.trim(): leading and trailing spaces removed
RECURSIVE Trim(_)
Trim(s) ==
    IF s = <<>> THEN s
    ELSE IF s[1] = " " THEN Trim(Tail(s))
    ELSE IF s[Len(s)] = " " THEN Trim(SubSeq(s, 1, Len(s) - 1))
    ELSE s

---------------------------------------------------------------------------
(* Spec compiler: parseOpenAPISpec *)

\* the key of a path item that the inner loop skips
Parameters == <<"p", "a", "r", "a", "m", "e", "t", "e", "r", "s">>

\* maximum length of a tool name
NameLimit == 64

\* a derivation that keeps the leading slash of the path
CleanPathKeepsSlash(path) == path

\* path.replace(/^\//, "")
CleanPathOf(path) ==
    IF Len(path) > 0 /\ path[1] = "/" THEN Tail(path) ELSE path

\* `${method.toUpperCase()}-${cleanPath}`.replace(/[^a-zA-Z0-9-]/g, "-")
ToolIdOf(method, path) ==
    LET raw == ToUpperCase(method) \o <<"-">> \o CleanPathOf(path)
    IN [i \in DOMAIN raw |->
            IF IsAlnum(raw[i]) \/ raw[i] = "-" THEN raw[i] ELSE "-"]

\* `${method.toUpperCase()}_${cleanPath.split('/').join('_')}`
SynthesizedName(method, path) ==
    ToUpperCase(method) \o <<"_">> \o Join(Split(CleanPathOf(path), "/"), "_")

\* .replace(/[^a-zA-Z0-9_-]/g, '_')
ReplaceInvalid(s) ==
    [i \in DOMAIN s |->
        IF IsAlnum(s[i]) \/ s[i] \in {"_", "-"} THEN s[i] ELSE "_"]

\* .replace(/_{2,}/g, '_'): every run of underscores becomes one underscore.
\* The two halves are collapsed and joined, dropping one of two underscores
\* that meet at the joint.
RECURSIVE CollapseUnderscores(_)
CollapseUnderscores(s) ==
    IF Len(s) < 2 THEN s
    ELSE LET h == Len(s) \div 2
             left == CollapseUnderscores(SubSeq(s, 1, h))
             right == CollapseUnderscores(SubSeq(s, h + 1, Len(s)))
         IN IF left[Len(left)] = "_" /\ right[1] = "_"
            THEN left \o Tail(right)
            ELSE left \o right

\* a name that is never cut
TruncateNever(s) == s

\* if (toolName.length > 64) toolName = toolName.substring(0, 64)
Truncate(s) == IF Len(s) > NameLimit THEN SubSeq(s, 1, NameLimit) ELSE s

\* op.summary || '' , then the synthesized name when that is empty
NameSource(summary, method, path) ==
    IF summary # <<>> THEN summary ELSE SynthesizedName(method, path)

ToolNameOf(summary, method, path) ==
    Truncate(CollapseUnderscores(ReplaceInvalid(NameSource(summary, method, path))))


\* "string", the default property type
TypeString == <<"s", "t", "r", "i", "n", "g">>

\* `${param.name} parameter`
DefaultParamDescription(name) ==
    name \o <<" ", "p", "a", "r", "a", "m", "e", "t", "e", "r">>

\* `Make a ${method.toUpperCase()} request to ${path}`
DefaultDescription(method, path) ==
    <<"M", "a", "k", "e", " ", "a", " ">> \o ToUpperCase(method)
        \o <<" ", "r", "e", "q", "u", "e", "s", "t", " ", "t", "o", " ">> \o path

\* tool.inputSchema before the parameters are added; `threw` tells that the
\* loop over op.parameters raised a TypeError
EmptySchema ==
    [threw |-> FALSE, properties |-> <<>>,
     required |-> [present |-> FALSE, names |-> <<>>]]

\* properties[name] = value on a JavaScript object: a present key keeps its place
PropertySet(properties, name, value) ==
    IF \E i \in DOMAIN properties : properties[i].name = name
    THEN [i \in DOMAIN properties |->
            IF properties[i].name = name THEN value ELSE properties[i]]
    ELSE Append(properties, value)

\* one iteration of `for (const param of op.parameters)`.  A parameter is
\*   [isParam: "name" in param && "in" in param, name, hasSchema: param.schema
\*    is defined, type: schema.type ("" when absent), description, required]
AddParam(schema, param) ==
    IF schema.threw \/ ~param.isParam THEN schema
    ELSE IF ~param.hasSchema
    THEN [schema EXCEPT !.threw = TRUE]     \* paramSchema.type of undefined
    ELSE [threw |-> FALSE,
          properties |->
              PropertySet(schema.properties, param.name,
                  [name |-> param.name,
                   type |-> IF param.type # <<>> THEN param.type ELSE TypeString,
                   description |->
                       IF param.description # <<>> THEN param.description
                       ELSE DefaultParamDescription(param.name)]),
          required |->
              IF param.required
              THEN [present |-> TRUE,
                    names |-> Append(schema.required.names, param.name)]
              ELSE schema.required]

\* the whole loop over op.parameters (an absent list is the empty list)
RECURSIVE AddParams(_, _)
AddParams(schema, params) ==
    IF params = <<>> THEN schema
    ELSE AddParams(AddParam(schema, params[1]), Tail(params))

\* the descriptor built for one operation
\*   [path, method, summary, description, parameters]
ToolOf(op) ==
    [name |-> ToolNameOf(op.summary, op.method, op.path),
     description |-> IF op.description # <<>> THEN op.description
                     ELSE DefaultDescription(op.method, op.path),
     inputSchema |-> AddParams(EmptySchema, op.parameters)]

---------------------------------------------------------------------------
(* Invocation dispatcher: the CallToolRequestSchema handler *)

\* this.config.apiBaseUrl, set by loadConfig
ApiBaseUrl == <<"h", "t", "t", "p", "s", ":", "/", "/", "a", "p", "i", ".",
                "e", "l", "e", "v", "e", "n", "l", "a", "b", "s", ".", "i", "o">>

\* const [method, ...pathParts] = toolId.split("-")
MethodOf(toolId) == Split(toolId, "-")[1]

\* "/" + pathParts.join("/").replace(/-/g, "/")
PathOf(toolId) ==
    LET joined == Join(Tail(Split(toolId, "-")), "/")
    IN <<"/">> \o [i \in DOMAIN joined |-> IF joined[i] = "-" THEN "/" ELSE joined[i]]

\* apiBaseUrl.endsWith("/") ? apiBaseUrl : `${apiBaseUrl}/`
BaseUrlOf(apiBaseUrl) ==
    IF EndsWithSlash(apiBaseUrl) THEN apiBaseUrl ELSE apiBaseUrl \o <<"/">>

\* path.startsWith("/") ? path.slice(1) : path
StripLeadingSlash(path) ==
    IF Len(path) > 0 /\ path[1] = "/" THEN Tail(path) ELSE path

\* the scheme of ApiBaseUrl with its "://"
HttpsPrefix == <<"h", "t", "t", "p", "s", ":", "/", "/">>

\* host of an absolute https URL: what stands between "https://" and the next "/"
HostOf(href) == Split(SubSeq(href, Len(HttpsPrefix) + 1, Len(href)), "/")[1]

\* s without its leading "/" characters (the URL parser's "special authority
\* ignore slashes" state)
RECURSIVE SkipSlashes(_)
SkipSlashes(s) ==
    IF Len(s) > 0 /\ s[1] = "/" THEN SkipSlashes(Tail(s)) ELSE s

\* the directory of an absolute URL: up to and including its last "/"
RECURSIVE DirectoryOf(_)
DirectoryOf(href) ==
    IF href = <<>> \/ EndsWithSlash(href) THEN href
    ELSE DirectoryOf(SubSeq(href, 1, Len(href) - 1))

\* new URL(cleanPath, baseUrl).toString() for a relative reference made of
\* letters and "/" only (what PathOf yields from a registry key) and an https
\* base without query or fragment:
\*   ""        -> the base
\*   "//..."   -> scheme-relative: the slashes are skipped and what follows is
\*                the host (lowercased), an empty host throws TypeError
\*   "/..."    -> path-absolute: replaces the base's path
\*   otherwise -> joined to the directory of the base
ResolveUrl(ref, baseUrl) ==
    LET origin == HttpsPrefix \o HostOf(baseUrl)
        rest == SkipSlashes(ref)
        host == Split(rest, "/")[1]
    IN IF ref = <<>> THEN [ok |-> TRUE, href |-> baseUrl]
       ELSE IF StartsWith(ref, <<"/", "/">>) THEN
            IF host = <<>> THEN [ok |-> FALSE, href |-> <<>>]
            ELSE [ok |-> TRUE,
                  href |-> HttpsPrefix \o ToLowerCase(host)
                           \o (IF Len(rest) > Len(host)
                               THEN SubSeq(rest, Len(host) + 1, Len(rest))
                               ELSE <<"/">>)]
       ELSE IF ref[1] = "/" THEN [ok |-> TRUE, href |-> origin \o ref]
       ELSE [ok |-> TRUE, href |-> DirectoryOf(baseUrl) \o ref]

\* String(value) for the argument values of the model
\*   t = "str": the string s;  t = "num": its decimal digits s;
\*   t = "bool": "true"/"false" in s
Stringify(value) == value.s

\* one element of Array.prototype.join: null and undefined give ""
JoinElement(value) ==
    IF value.t \in {"null", "undef"} THEN <<>> ELSE Stringify(value)

\* value.join(",")
JoinArray(items) == Join([i \in DOMAIN items |-> JoinElement(items[i])], ",")

\* the loop over Object.entries(params) that fills queryParams
RECURSIVE QueryParamsOf(_)
QueryParamsOf(entries) ==
    IF entries = <<>> THEN <<>>
    ELSE LET e == entries[1]
             mine == IF e.value.t = "arr"
                     THEN <<[key |-> e.key, s |-> JoinArray(e.value.items)]>>
                     ELSE IF e.value.t \notin {"undef", "null"}
                     THEN <<[key |-> e.key, s |-> Stringify(e.value)]>>
                     ELSE <<>>
         IN mine \o QueryParamsOf(Tail(entries))

\* an absent config.params / config.data / request.params.arguments
Absent == [present |-> FALSE, entries |-> <<>>]

\* config.params for the method of the tool and the arguments of the request
ConfigParams(method, arguments) ==
    IF ToLowerCase(method) = <<"g", "e", "t">> /\ arguments.present
    THEN [present |-> TRUE, entries |-> QueryParamsOf(arguments.entries)]
    ELSE Absent

\* a body sent whatever the method
ConfigDataAlways(method, arguments) == arguments

\* config.data
ConfigData(method, arguments) ==
    IF ToLowerCase(method) = <<"g", "e", "t">> THEN Absent ELSE arguments

\* this.tools.set(toolId, tool): a present key keeps its place
RegistrySet(registry, toolId, tool) ==
    IF \E i \in DOMAIN registry : registry[i].id = toolId
    THEN [i \in DOMAIN registry |->
            IF registry[i].id = toolId THEN [id |-> toolId, tool |-> tool]
            ELSE registry[i]]
    ELSE Append(registry, [id |-> toolId, tool |-> tool])

\* this.tools.get(toolId): the index of the entry, 0 for undefined
RegistryGet(registry, toolId) ==
    IF \E i \in DOMAIN registry : registry[i].id = toolId
    THEN CHOOSE i \in DOMAIN registry : registry[i].id = toolId
    ELSE 0

\* a scan without the break: the last entry of that name wins
RECURSIVE ScanByNameNoBreak(_, _, _)
ScanByNameNoBreak(registry, name, i) ==
    IF i > Len(registry) THEN 0
    ELSE LET later == ScanByNameNoBreak(registry, name, i + 1)
         IN IF later # 0 THEN later
            ELSE IF registry[i].tool.name = name THEN i ELSE 0

\* for (const [tid, t] of this.tools.entries()) if (t.name === name) ... break
RECURSIVE ScanByName(_, _, _)
ScanByName(registry, name, i) ==
    IF i > Len(registry) THEN 0
    ELSE IF registry[i].tool.name = name THEN i
    ELSE ScanByName(registry, name, i + 1)

\* the entry the request resolves to: by id when id is truthy, else by name
ResolveTool(registry, id, name) ==
    IF id # <<>> THEN RegistryGet(registry, Trim(id))
    ELSE IF name # <<>> THEN ScanByName(registry, name, 1)
    ELSE 0

\* number of axios(config) calls the handler makes for a resolved tool
AxiosCalls == 1

\* The handler from the request to `await axios(config)`:
\*   outcome "ToolNotFound": throws Error("Tool not found: ...")
\*   outcome "TypeError":    new URL throws, the outer catch rethrows it
\*   outcome "sent":         axios(config) was called, the handler waits
Dispatch(registry, request) ==
    LET k == ResolveTool(registry, request.id, request.name)
        toolId == registry[k].id
        method == MethodOf(toolId)
        path == PathOf(toolId)
        baseUrl == BaseUrlOf(ApiBaseUrl)
        cleanPath == StripLeadingSlash(path)
        url == ResolveUrl(cleanPath, baseUrl)
        none == [outcome |-> "ToolNotFound", entry |-> 0, toolId |-> <<>>,
                 method |-> <<>>, path |-> <<>>, url |-> <<>>,
                 params |-> Absent, data |-> Absent, calls |-> 0]
    IN IF k = 0 THEN none
       ELSE IF ~url.ok
       THEN [none EXCEPT !.outcome = "TypeError", !.entry = k, !.toolId = toolId,
                         !.path = path]
       ELSE [outcome |-> "sent", entry |-> k, toolId |-> toolId,
             method |-> ToLowerCase(method), path |-> path, url |-> url.href,
             params |-> ConfigParams(method, request.arguments),
             data |-> ConfigData(method, request.arguments),
             calls |-> AxiosCalls]

---------------------------------------------------------------------------
(* The server: main, start, parseOpenAPISpec's loops and the two handlers *)

\* entries (path, method) one document holds at most
MaxEntries == 2

\* invocations waiting for their axios response at the same time, at most
MaxInFlight == 2

Get == <<"g", "e", "t">>

Post == <<"p", "o", "s", "t">>

\* paths of the documents: two that sanitize to the same identifier, one
\* whose identifier holds nothing but hyphens after the method
DocPaths == {<<"/", "a", "-", "b">>, <<"/", "a", "_", "b">>, <<"/", "_", "_">>}

DocSummaries == {<<>>, <<"s">>}

\* a parameter object that carries `content` instead of `schema`
SchemalessParam ==
    [isParam |-> TRUE, name |-> <<"x">>, hasSchema |-> FALSE, type |-> <<>>,
     description |-> <<>>, required |-> FALSE]

DocOperations ==
    [path : DocPaths, method : {Get, Post}, summary : DocSummaries,
     description : {<<>>}, parameters : {<<>>, <<SchemalessParam>>}]

\* Object.entries yields every path once and its methods one after the other
FreshKey(op) ==
    /\ \A i \in DOMAIN registered :
          ~(registered[i].path = op.path /\ registered[i].method = op.method)
    /\ IF \A i \in DOMAIN registered : registered[i].path # op.path
       THEN TRUE
       ELSE registered[Len(registered)].path = op.path

UnknownId == <<"D", "E", "L", "E", "T", "E", "-", "n", "o", "n", "e", "x", "i",
               "s", "t", "e", "n", "t">>

UnknownName == <<"n", "o", "n", "e">>

\* request.params.arguments of the requests: none, or {name: "x"}
RequestArguments ==
    {Absent,
     [present |-> TRUE,
      entries |-> <<[key |-> "name",
                     value |-> [t |-> "str", s |-> <<"x">>, items |-> <<>>]]>>]}

\* request.params of the tool invocations sent to a server with this registry
Requests(registry) ==
    LET ids == {registry[i].id : i \in DOMAIN registry}
        names == {registry[i].tool.name : i \in DOMAIN registry}
        padded == {<<" ">> \o registry[i].id \o <<" ">> : i \in DOMAIN registry \cap {1}}
    IN [id : ids \cup padded \cup {UnknownId}, name : {<<>>},
        arguments : RequestArguments]
       \cup [id : {<<>>}, name : names \cup {UnknownName, <<>>},
             arguments : RequestArguments]
       \cup [id : {UnknownId}, name : names, arguments : {Absent}]

NoRequest == [id |-> <<>>, name |-> <<>>, arguments |-> Absent]

NoDispatch ==
    [outcome |-> "none", entry |-> 0, toolId |-> <<>>, method |-> <<>>,
     path |-> <<>>, url |-> <<>>, params |-> Absent, data |-> Absent,
     calls |-> 0]

\* `last` before any request was handled
Nothing == [op |-> "none", request |-> NoRequest, d |-> NoDispatch, listing |-> <<>>]

Init ==
    /\ pc = "constructed"
    /\ connected = FALSE
    /\ pos = 0
    /\ registered = <<>>
    /\ tools = <<>>
    /\ inflight = EmptyBag
    /\ last = Nothing
    /\ arg = <<>>
    /\ res = <<>>

\* loadOpenAPISpec returns the document
LoadSpec ==
    /\ pc = "constructed"
    /\ pc' = "compiling"
    /\ UNCHANGED <<connected, pos, registered, tools, inflight, last, arg, res>>

\* loadOpenAPISpec throws (axios.get or readFile/JSON.parse failed) or
\* Object.entries(spec.paths) throws: start rejects, main calls process.exit(1)
LoadFail ==
    /\ pc = "constructed"
    /\ pc' = "exited"
    /\ UNCHANGED <<connected, pos, registered, tools, inflight, last, arg, res>>

\* an entry the loops pass over: a null path item, the key "parameters", a
\* null operation
CompileSkip ==
    /\ pc = "compiling"
    /\ pos < MaxEntries
    /\ pos' = pos + 1
    /\ UNCHANGED <<pc, connected, registered, tools, inflight, last, arg, res>>

\* one pass of the inner loop body that reaches this.tools.set
CompileRegister ==
    /\ pc = "compiling"
    /\ pos < MaxEntries
    /\ \E op \in DocOperations :
          /\ op.method # Parameters
          /\ FreshKey(op)
          /\ ~ToolOf(op).inputSchema.threw
          /\ tools' = RegistrySet(tools, ToolIdOf(op.method, op.path), ToolOf(op))
          /\ registered' = Append(registered, op)
    /\ pos' = pos + 1
    /\ UNCHANGED <<pc, connected, inflight, last, arg, res>>

\* one pass of the inner loop body that throws before this.tools.set: start
\* rejects, main calls process.exit(1)
CompileThrow ==
    /\ pc = "compiling"
    /\ pos < MaxEntries
    /\ \E op \in DocOperations :
          /\ FreshKey(op)
          /\ ToolOf(op).inputSchema.threw
    /\ pc' = "exited"
    /\ UNCHANGED <<connected, pos, registered, tools, inflight, last, arg, res>>

\* the loops end, parseOpenAPISpec returns
CompileDone ==
    /\ pc = "compiling"
    /\ pc' = "parsed"
    /\ UNCHANGED <<connected, pos, registered, tools, inflight, last, arg, res>>

\* a start that connects the transport without awaiting parseOpenAPISpec
ConnectBeforeParsed ==
    /\ pc \in {"constructed", "compiling", "parsed"}
    /\ ~connected
    /\ connected' = TRUE
    /\ UNCHANGED <<pc, pos, registered, tools, inflight, last, arg, res>>

\* start: await this.server.connect(transport), after parseOpenAPISpec
Connect ==
    /\ pc = "parsed"
    /\ ~connected
    /\ connected' = TRUE
    /\ UNCHANGED <<pc, pos, registered, tools, inflight, last, arg, res>>

\* the process takes requests
Serving == connected /\ pc # "exited"

\* the ListToolsRequestSchema handler
ListTools ==
    /\ Serving
    /\ last' = [Nothing EXCEPT !.op = "list",
                               !.listing = [i \in DOMAIN tools |-> tools[i].tool]]
    /\ UNCHANGED <<pc, connected, pos, registered, tools, inflight, arg, res>>

\* the CallToolRequestSchema handler, up to its throw or its `await axios(config)`
CallTool ==
    /\ Serving
    /\ \E request \in Requests(tools) :
      \E d \in {Dispatch(tools, request)} :
          /\ d.outcome = "sent" => BagCardinality(inflight) < MaxInFlight
          /\ last' = [Nothing EXCEPT !.op = "call", !.request = request, !.d = d]
          /\ inflight' =
                IF d.outcome = "sent"
                THEN inflight (+) SetToBag({[calls |-> d.calls]})
                ELSE inflight
    /\ UNCHANGED <<pc, connected, pos, registered, tools, arg, res>>

\* what the handler of a suspended invocation returns or throws when axios settles
Settled(p, outcome) ==
    [Nothing EXCEPT !.op = "reply",
                    !.d = [NoDispatch EXCEPT !.outcome = outcome,
                                             !.calls = p.calls]]

\* axios resolves: the handler returns the content block
HttpOk ==
    /\ Serving
    /\ \E p \in BagToSet(inflight) :
          /\ inflight' = inflight (-) SetToBag({p})
          /\ last' = Settled(p, "content")
    /\ UNCHANGED <<pc, connected, pos, registered, tools, arg, res>>

\* a handler that drops a tool from the registry when its call fails
HttpFailDropsTool ==
    /\ Serving
    /\ \E p \in BagToSet(inflight) :
          /\ inflight' = inflight (-) SetToBag({p})
          /\ last' = Settled(p, "ApiRequestFailed")
    /\ tools' = IF tools = <<>> THEN tools ELSE Tail(tools)
    /\ UNCHANGED <<pc, connected, pos, registered, arg, res>>

\* axios rejects with an AxiosError: the handler throws "API request failed"
HttpFail ==
    /\ Serving
    /\ \E p \in BagToSet(inflight) :
          /\ inflight' = inflight (-) SetToBag({p})
          /\ last' = Settled(p, "ApiRequestFailed")
    /\ UNCHANGED <<pc, connected, pos, registered, tools, arg, res>>

\* axios rejects with another error: both catch blocks rethrow it
HttpThrow ==
    /\ Serving
    /\ \E p \in BagToSet(inflight) :
          /\ inflight' = inflight (-) SetToBag({p})
          /\ last' = Settled(p, "rethrown")
    /\ UNCHANGED <<pc, connected, pos, registered, tools, arg, res>>

Next ==
    \/ LoadSpec \/ LoadFail
    \/ CompileSkip \/ CompileRegister \/ CompileThrow \/ CompileDone
    \/ Connect
    \/ ListTools \/ CallTool \/ HttpOk \/ HttpFail \/ HttpThrow

Spec == Init /\ [][Next]_vars

---------------------------------------------------------------------------
(* Identifier derivation, reconstruction and URL construction, applied to  *)
(* one operation at a time                                                 *)

\* characters of a path after its leading "/", at most
MaxPathLen == 3

\* the server is not looked at: its variables stay as constructed
ServerIdle ==
    /\ pc = "constructed"
    /\ connected = FALSE
    /\ pos = 0
    /\ registered = <<>>
    /\ tools = <<>>
    /\ inflight = EmptyBag
    /\ last = Nothing

serverVars == <<pc, connected, pos, registered, tools, inflight, last>>

\* all sequences over `chars` of length at most n
RECURSIVE SeqsUpTo(_, _)
SeqsUpTo(chars, n) ==
    IF n = 0 THEN {<<>>}
    ELSE LET shorter == SeqsUpTo(chars, n - 1)
         IN shorter \cup {Append(s, c) : s \in shorter, c \in chars}

\* characters of the paths: letters of both cases, the separators a path is
\* written with, a template brace
PathChars == {"a", "B", "/", "-", "_", "{"}

IdentPaths == {<<"/">> \o s : s \in SeqsUpTo(PathChars, MaxPathLen)}

IdentMethods == {Get, Post}

InitIdent ==
    /\ ServerIdle
    /\ arg \in [method : IdentMethods, path : IdentPaths]
    /\ res = [stage |-> "operation", toolId |-> <<>>, method |-> <<>>,
              path |-> <<>>, reId |-> <<>>, url |-> [ok |-> FALSE, href |-> <<>>]]

\* parseOpenAPISpec computes toolId for the operation
DeriveId ==
    /\ res.stage = "operation"
    /\ res' = [res EXCEPT !.stage = "registered",
                          !.toolId = ToolIdOf(arg.method, arg.path)]
    /\ UNCHANGED <<serverVars, arg>>

\* the handler splits the identifier into method and path
Reconstruct ==
    /\ res.stage = "registered"
    /\ res' = [res EXCEPT !.stage = "reconstructed",
                          !.method = MethodOf(res.toolId),
                          !.path = PathOf(res.toolId)]
    /\ UNCHANGED <<serverVars, arg>>

\* the handler builds the URL of the call
BuildUrl ==
    /\ res.stage = "reconstructed"
    /\ res' = [res EXCEPT !.stage = "url",
                          !.url = ResolveUrl(StripLeadingSlash(res.path),
                                             BaseUrlOf(ApiBaseUrl))]
    /\ UNCHANGED <<serverVars, arg>>

\* the compiler's derivation applied to the reconstructed method and path
Rederive ==
    /\ res.stage = "url"
    /\ res' = [res EXCEPT !.stage = "rederived",
                          !.reId = ToolIdOf(res.method, res.path)]
    /\ UNCHANGED <<serverVars, arg>>

NextIdent == DeriveId \/ Reconstruct \/ BuildUrl \/ Rederive

SpecIdent == InitIdent /\ [][NextIdent]_vars

HasHyphen(path) == \E i \in DOMAIN path : path[i] = "-"

\* C6 (as amended): for every method and path, with or without a hyphen in
\* the path, re-deriving the identifier from the method and path that the
\* dispatcher reconstructs yields the original identifier.
C6_RoundTripEveryPath ==
    res.stage = "rederived" => res.reId = res.toolId

\* C6 witness: a path with a hyphen went through the round trip, came back
\* as another path and still gave the identifier it started from.
C6_HyphenRoundTrip ==
    /\ res.stage = "rederived"
    /\ HasHyphen(arg.path)
    /\ res.path # arg.path
    /\ res.reId = res.toolId

\* C6 (as claimed): the round trip yields the original identifier when the
\* path has no hyphen and a different identifier when it has one.
C6_RoundTripFailsOnHyphen ==
    res.stage = "rederived" =>
        IF HasHyphen(arg.path) THEN res.reId # res.toolId
        ELSE res.reId = res.toolId

\* C9 (as claimed): for every operation whose path has no literal hyphen, the
\* method and path reconstructed from its identifier are the uppercased
\* method and the original path.
C9_PathRecovered ==
    (res.stage \in {"reconstructed", "url", "rederived"} /\ ~HasHyphen(arg.path))
        => /\ res.method = ToUpperCase(arg.method)
           /\ res.path = arg.path

\* C10 (as claimed, in its conclusion): every URL the dispatcher builds for
\* an outbound call has the configured base URL as a prefix and the base
\* URL's host.  (The claim draws this from the URL being the base URL, ending
\* in one slash, followed by the reconstructed path without its leading
\* slash.)
C10_UrlUnderBaseUrl ==
    (res.stage \in {"url", "rederived"} /\ res.url.ok)
        => /\ StartsWith(res.url.href, BaseUrlOf(ApiBaseUrl))
           /\ HostOf(res.url.href) = HostOf(ApiBaseUrl)

---------------------------------------------------------------------------
(* Tool name derivation, statement by statement                            *)

\* length of the unit a long summary or path repeats, at most
MaxUnitLen == 2

\* repetitions of the unit, at most: names up to and beyond NameLimit
MaxRepeat == 66

\* the unit written k times
Repeat(unit, k) ==
    [i \in 1..(k * Len(unit)) |-> unit[((i - 1) % Len(unit)) + 1]]

\* a letter, the two symbols a name may hold, a blank, the path separator
NameChars == {"a", "-", "_", " ", "/"}

Texts ==
    {Repeat(unit, k) : unit \in SeqsUpTo(NameChars, MaxUnitLen), k \in 0..MaxRepeat}

InitName ==
    /\ ServerIdle
    /\ arg \in [summary : Texts \ {<<>>}, method : {Get}, path : {<<"/", "a">>}]
               \cup [summary : {<<>>}, method : {Get, Post},
                     path : {<<"/">> \o s : s \in Texts}]
    /\ res = [stage |-> "operation", toolName |-> <<>>]

\* let toolName = op.summary || ''; if (!toolName) toolName = `METHOD_path`
NameChoose ==
    /\ res.stage = "operation"
    /\ res' = [stage |-> "chosen",
               toolName |-> NameSource(arg.summary, arg.method, arg.path)]
    /\ UNCHANGED <<serverVars, arg>>

\* toolName = toolName.replace(...).replace(...)
NameClean ==
    /\ res.stage = "chosen"
    /\ res' = [stage |-> "cleaned",
               toolName |-> CollapseUnderscores(ReplaceInvalid(res.toolName))]
    /\ UNCHANGED <<serverVars, arg>>

\* if (toolName.length > 64) toolName = toolName.substring(0, 64)
NameTruncate ==
    /\ res.stage = "cleaned"
    /\ res' = [stage |-> "named", toolName |-> Truncate(res.toolName)]
    /\ UNCHANGED <<serverVars, arg>>

NextName == NameChoose \/ NameClean \/ NameTruncate

SpecName == InitName /\ [][NextName]_vars

\* C7: the Tool Name of every compiled operation, whatever its summary,
\* method and path, has at most 64 characters, each of them a letter, a
\* digit, "_" or "-".
C7_NameShape ==
    res.stage = "named" =>
        /\ Len(res.toolName) <= 64
        /\ \A i \in DOMAIN res.toolName :
              \/ res.toolName[i] \in Letters \cup Digits
              \/ res.toolName[i] \in {"_", "-"}

\* C7 witness: a summary longer than 64 characters after cleaning, holding
\* characters a name may not hold, was cut to a name of 64 characters.
C7_LongSummaryNamed ==
    /\ res.stage = "named"
    /\ Len(arg.summary) > 64
    /\ \E i \in DOMAIN arg.summary : arg.summary[i] = " "
    /\ Len(res.toolName) = 64

---------------------------------------------------------------------------
(* Input schema construction: the loop over op.parameters of one operation *)

\* parameters one operation declares, at most
MaxParams == 2

ParamNames == {<<"x">>, <<"y">>}

TypeInteger == <<"i", "n", "t", "e", "g", "e", "r">>

\* a { $ref } entry: neither "name" nor "in"
ReferenceParam ==
    [isParam |-> FALSE, name |-> <<>>, hasSchema |-> FALSE, type |-> <<>>,
     description |-> <<>>, required |-> FALSE]

\* the entries of op.parameters: reference objects, and parameter objects
\* with or without a schema, a schema type, a description, the required flag
ParamObjects ==
    {ReferenceParam}
    \cup [isParam : {TRUE}, name : ParamNames, hasSchema : {TRUE},
          type : {<<>>, TypeInteger}, description : {<<>>, <<"d">>},
          required : BOOLEAN]
    \cup [isParam : {TRUE}, name : ParamNames, hasSchema : {FALSE},
          type : {<<>>}, description : {<<>>, <<"d">>}, required : BOOLEAN]

RECURSIVE ParamLists(_)
ParamLists(n) ==
    IF n = 0 THEN {<<>>}
    ELSE LET shorter == ParamLists(n - 1)
         IN shorter \cup {Append(s, p) : s \in shorter, p \in ParamObjects}

InitParams ==
    /\ ServerIdle
    /\ arg \in ParamLists(MaxParams)
    /\ res = [stage |-> "loop", i |-> 0, schema |-> EmptySchema]

\* one iteration of the loop over op.parameters that completes
ParamStep ==
    /\ res.stage = "loop"
    /\ res.i < Len(arg)
    /\ ~AddParam(res.schema, arg[res.i + 1]).threw
    /\ res' = [res EXCEPT !.i = res.i + 1,
                          !.schema = AddParam(res.schema, arg[res.i + 1])]
    /\ UNCHANGED <<serverVars, arg>>

\* the iteration that reads paramSchema.type of an undefined schema: the
\* TypeError leaves parseOpenAPISpec, the operation is not registered
ParamThrow ==
    /\ res.stage = "loop"
    /\ res.i < Len(arg)
    /\ AddParam(res.schema, arg[res.i + 1]).threw
    /\ res' = [res EXCEPT !.stage = "threw",
                          !.schema = AddParam(res.schema, arg[res.i + 1])]
    /\ UNCHANGED <<serverVars, arg>>

\* the loop ends: this.tools.set(toolId, tool)
ParamsDone ==
    /\ res.stage = "loop"
    /\ res.i = Len(arg)
    /\ res' = [res EXCEPT !.stage = "registered"]
    /\ UNCHANGED <<serverVars, arg>>

NextParams == ParamStep \/ ParamThrow \/ ParamsDone

SpecParams == InitParams /\ [][NextParams]_vars

\* the last entry of op.parameters that declares `name`
LastDeclaring(name) ==
    CHOOSE i \in DOMAIN arg :
        /\ arg[i].isParam /\ arg[i].name = name
        /\ \A j \in (i + 1)..Len(arg) : ~(arg[j].isParam /\ arg[j].name = name)

\* C8 (as claimed): for every operation the compile pass completes, and every
\* declared parameter with a name and an `in` has a property under its name
\* whose type is the schema type, or "string" when there is none (also when
\* the parameter has no schema), and whose description is the parameter's or
\* "{name} parameter"; the required list exists iff some such parameter is
\* required, and then holds exactly the required names, each a property key.
C8_InputContractBuilt ==
    /\ res.stage # "threw"
    /\ res.stage = "registered" =>
          LET props == res.schema.properties
              declared == {i \in DOMAIN arg : arg[i].isParam}
              requiredNames == {arg[i].name : i \in {j \in declared : arg[j].required}}
          IN /\ {props[k].name : k \in DOMAIN props} = {arg[i].name : i \in declared}
             /\ \A k \in DOMAIN props :
                   LET param == arg[LastDeclaring(props[k].name)]
                   IN /\ props[k].type =
                            (IF param.hasSchema /\ param.type # <<>>
                             THEN param.type ELSE TypeString)
                      /\ props[k].description =
                            (IF param.description # <<>> THEN param.description
                             ELSE DefaultParamDescription(param.name))
             /\ res.schema.required.present <=> requiredNames # {}
             /\ Range(res.schema.required.names) = requiredNames

---------------------------------------------------------------------------
(* Argument shaping: one invocation of a registered tool by its identifier *)

\* entries of the arguments object, at most
MaxArgs == 2

\* elements of an array argument, at most
MaxItems == 2

Delete == <<"d", "e", "l", "e", "t", "e">>

StrValue(s) == [t |-> "str", s |-> s, items |-> <<>>]

NullValue == [t |-> "null", s |-> <<>>, items |-> <<>>]

UndefinedValue == [t |-> "undef", s |-> <<>>, items |-> <<>>]

\* a string, a number, a boolean, null, undefined
ScalarValues ==
    {StrValue(<<"a">>), [t |-> "num", s |-> <<"1">>, items |-> <<>>],
     [t |-> "bool", s |-> <<"t", "r", "u", "e">>, items |-> <<>>],
     NullValue, UndefinedValue}

ArrayValues ==
    {[t |-> "arr", s |-> <<>>, items |-> items] :
        items \in SeqsUpTo({StrValue(<<"a">>), NullValue}, MaxItems)}

\* keys of the arguments object, in the order Object.entries yields them
ArgKeys == <<"k1", "k2", "k3", "k4">>

RECURSIVE EntryLists(_)
EntryLists(n) ==
    IF n = 0 THEN {<<>>}
    ELSE LET shorter == EntryLists(n - 1)
         IN shorter
            \cup {Append(s, [key |-> ArgKeys[Len(s) + 1], value |-> v]) :
                    s \in {x \in shorter : Len(x) = n - 1},
                    v \in ScalarValues \cup ArrayValues}

ArgumentObjects ==
    {Absent} \cup {[present |-> TRUE, entries |-> e] : e \in EntryLists(MaxArgs)}

InitShape ==
    /\ ServerIdle
    /\ arg \in [method : {Get, Post, Delete}, path : {<<"/", "a">>},
                arguments : ArgumentObjects]
    /\ res = [stage |-> "request", d |-> NoDispatch]

\* the handler runs for a request that names the tool by its identifier
ShapeCall ==
    /\ res.stage = "request"
    /\ LET op == [path |-> arg.path, method |-> arg.method, summary |-> <<>>,
                  description |-> <<>>, parameters |-> <<>>]
           toolId == ToolIdOf(arg.method, arg.path)
           registry == RegistrySet(<<>>, toolId, ToolOf(op))
       IN res' = [stage |-> "called",
                  d |-> Dispatch(registry, [id |-> toolId, name |-> <<>>,
                                            arguments |-> arg.arguments])]
    /\ UNCHANGED <<serverVars, arg>>

NextShape == ShapeCall

SpecShape == InitShape /\ [][NextShape]_vars

GetToken == <<"G", "E", "T">>

\* C5: for a tool whose identifier encodes GET every argument is sent as a
\* query parameter and no body is sent: an array as its elements joined by
\* commas, a null or undefined value not at all, any other value as its
\* string; for a tool of any other method the arguments are the body,
\* unchanged, and no query parameters are sent.
C5_ArgumentPlacement ==
    res.stage = "called" =>
        LET d == res.d
            a == arg.arguments
            q == d.params.entries
        IN /\ d.outcome = "sent"
           /\ IF MethodOf(d.toolId) = GetToken
              THEN /\ ~d.data.present
                   /\ d.params.present <=> a.present
                   /\ \A j \in DOMAIN q : \E i \in DOMAIN a.entries :
                         a.entries[i].key = q[j].key
                   /\ \A i \in DOMAIN a.entries :
                         LET e == a.entries[i]
                             hits == {j \in DOMAIN q : q[j].key = e.key}
                         IN IF e.value.t \in {"null", "undef"} THEN hits = {}
                            ELSE /\ Cardinality(hits) = 1
                                 /\ \A j \in hits :
                                       q[j].s = IF e.value.t = "arr"
                                                THEN JoinArray(e.value.items)
                                                ELSE e.value.s
              ELSE /\ ~d.params.present
                   /\ d.data = a

\* C5 witness: a GET tool was called with an array of two elements and a
\* null value; the array went out as one query parameter, the null did not.
C5_GetWithArrayAndNull ==
    /\ res.stage = "called"
    /\ MethodOf(res.d.toolId) = GetToken
    /\ arg.arguments.present
    /\ \E i, j \in DOMAIN arg.arguments.entries :
          /\ arg.arguments.entries[i].value.t = "arr"
          /\ Len(arg.arguments.entries[i].value.items) = 2
          /\ arg.arguments.entries[j].value.t = "null"
    /\ Len(res.d.params.entries) = 1

---------------------------------------------------------------------------
(* Claims about the server *)

\* the request of the latest invocation names a registry entry: by its
\* identifier when it gives one, else by its name
Matches(request) ==
    IF request.id # <<>>
    THEN \E i \in DOMAIN tools : tools[i].id = Trim(request.id)
    ELSE \E i \in DOMAIN tools : tools[i].tool.name = request.name

\* C1 (as claimed): a request that matches no registry entry fails with
\* "Tool not found" and issues no outbound call; every request that resolves
\* to a registry entry issues exactly one outbound call; a failure of that
\* call is reported without a second call.
C1_OneCallPerDispatch ==
    /\ last.op = "call" =>
          IF Matches(last.request)
          THEN last.d.outcome = "sent" /\ last.d.calls = 1
          ELSE last.d.outcome = "ToolNotFound" /\ last.d.calls = 0
    /\ \A p \in BagToSet(inflight) : p.calls = 1
    /\ last.op = "reply" => last.d.calls = 1

\* C2: no tool listing and no tool invocation is served before the compile
\* pass has completed; when loading or compiling fails, also part-way, the
\* process exits without ever having been connected or having served a request.
C2_ServedOnlyAfterCompile ==
    /\ (connected \/ last # Nothing \/ inflight # EmptyBag) => pc = "parsed"
    /\ pc = "exited" => ~connected /\ last = Nothing

\* C2 witness: the compile pass failed after it had registered a tool, and
\* the process exited unconnected.
C2_ExitedPartWay ==
    pc = "exited" /\ Len(tools) >= 1 /\ ~connected

\* what the compile pass produced from the operations it registered
RECURSIVE CompiledRegistry(_)
CompiledRegistry(ops) ==
    IF ops = <<>> THEN <<>>
    ELSE LET op == ops[Len(ops)]
         IN RegistrySet(CompiledRegistry(SubSeq(ops, 1, Len(ops) - 1)),
                        ToolIdOf(op.method, op.path), ToolOf(op))

\* C3: once requests are served, the registry (identifiers, order,
\* descriptors) is what the compile pass produced, whatever listings and
\* invocations (successful, not found, failed upstream, several in flight)
\* were served since; every listing returns that same sequence.
C3_RegistryReadOnly ==
    connected =>
        /\ tools = CompiledRegistry(registered)
        /\ last.op = "list" =>
              last.listing = [i \in DOMAIN tools |-> CompiledRegistry(registered)[i].tool]

\* C3 witness: an invocation failed upstream while another one was still in
\* flight, with two tools registered.
C3_FailedWhileOthersInFlight ==
    /\ connected
    /\ last.op = "reply" /\ last.d.outcome = "ApiRequestFailed"
    /\ inflight # EmptyBag
    /\ Len(tools) = 2

\* the place in `registered` of the first, and of the last, operation whose
\* identifier is toolId
FirstRegistration(toolId) ==
    CHOOSE i \in DOMAIN registered :
        /\ ToolIdOf(registered[i].method, registered[i].path) = toolId
        /\ \A j \in 1..(i - 1) :
              ToolIdOf(registered[j].method, registered[j].path) # toolId

LastRegistration(toolId) ==
    CHOOSE i \in DOMAIN registered :
        /\ ToolIdOf(registered[i].method, registered[i].path) = toolId
        /\ \A j \in (i + 1)..Len(registered) :
              ToolIdOf(registered[j].method, registered[j].path) # toolId

\* C4: the registry holds every identifier once, in the order of first
\* insertion, with the descriptor inserted last under it; a request with a
\* name and no identifier resolves to the first entry in that order whose
\* Tool Name is the name (later entries of the same name are not reached),
\* and the call uses the method and path that entry's identifier encodes.
C4_ResolutionByName ==
    /\ {tools[i].id : i \in DOMAIN tools}
          = {ToolIdOf(registered[i].method, registered[i].path) : i \in DOMAIN registered}
    /\ \A i, j \in DOMAIN tools :
          i < j => FirstRegistration(tools[i].id) < FirstRegistration(tools[j].id)
    /\ \A i \in DOMAIN tools :
          LET op == registered[LastRegistration(tools[i].id)]
          IN tools[i].tool.name = ToolNameOf(op.summary, op.method, op.path)
    /\ (last.op = "call" /\ last.request.id = <<>> /\ last.request.name # <<>>) =>
          LET named == {i \in DOMAIN tools : tools[i].tool.name = last.request.name}
              d == last.d
          IN IF named = {} THEN d.outcome = "ToolNotFound"
             ELSE /\ d.entry \in named
                  /\ \A i \in named : d.entry <= i
                  /\ d.toolId = tools[d.entry].id
                  /\ d.outcome = "sent" =>
                        \E k \in DOMAIN d.toolId :
                           /\ d.toolId[k] = "-"
                           /\ \A m \in 1..(k - 1) : d.toolId[m] # "-"
                           /\ d.method = ToLowerCase(SubSeq(d.toolId, 1, k - 1))
                           /\ d.path = <<"/">> \o
                                 [m \in 1..(Len(d.toolId) - k) |->
                                     IF d.toolId[k + m] = "-" THEN "/"
                                     ELSE d.toolId[k + m]]

\* C4 witness: two entries carry the same Tool Name, a request by that name
\* was sent, and it went to the first of them.
C4_SecondOfNameNotReached ==
    /\ last.op = "call" /\ last.d.outcome = "sent"
    /\ last.request.id = <<>>
    /\ Len(tools) = 2
    /\ tools[1].tool.name = last.request.name
    /\ tools[2].tool.name = last.request.name
    /\ last.d.entry = 1

====
